---- MODULE Spec2Model ----
(***************************************************************************)
(* Model of the guided installation script of archinstall                  *)
(* (archinstall/scripts/guided.py): the module-level pipeline and          *)
(* perform_installation, with the hardware read SysInfo.has_uefi           *)
(* (archinstall/lib/hardware.py).                                          *)
(*                                                                         *)
(* The state is the global argument dictionary archinstall.arguments       *)
(* (plan), the firmware marker read by SysInfo.has_uefi, the position of   *)
(* the script (pc), the calls the script has made in order (calls), the    *)
(* call that raised (failed), the exception the script swallowed (caught), *)
(* the Installer context (scope) and the process exit code (-1 while the   *)
(* process runs).  pc is the statement the script is at; it stays there    *)
(* when the statement raises or exits the process.                         *)
(*                                                                         *)
(* The detectors of archinstall/lib/hardware.py read the machine (machine: *)
(* the pseudo-files, the output of lspci and systemd-detect-virt, the      *)
(* network interfaces) and leave their outcome in result.                  *)
(*                                                                         *)
(* The example script (examples/interactive_installation.py) is a second   *)
(* script with its own position, calls, exception and Installer context    *)
(* (example); it is run on the plan and the machine of a finished run of   *)
(* the guided script and meets the outcomes that run met.                  *)
(***************************************************************************)
EXTENDS Integers, Sequences, FiniteSets, TLC

VARIABLES plan, has_uefi, reachable, pc, calls, failed, caught, scope, exit_code,
          machine, result, example

vars == <<plan, has_uefi, reachable, pc, calls, failed, caught, scope, exit_code,
          machine, result, example>>

\* The variables of the installation script
script == <<plan, reachable, pc, calls, failed, caught, scope, exit_code>>

(* ---------------------------------------------------------------------- *)
(* Values of the argument dictionary                                      *)
(* ---------------------------------------------------------------------- *)

\* Python's None, and a key that is missing from the dictionary (.get(k, None))
NoneVal == "<None>"

\* Python truthiness of an optional value: None, '' / {} / [] and False are falsy
Truthy(v) == v \notin {NoneVal, "", "False"}

\* How many optional settings a plan may move away from the minimal plan
MaxChosen == 2

\* The plan with only the mandatory keys set (disk_config, bootloader, keyboard-layout)
MinimalPlan ==
    [ dry_run           |-> FALSE,
      silent            |-> FALSE,
      skip_mirror_check |-> FALSE,
      config_type       |-> "Default",
      disk_encryption   |-> NoneVal,
      mirror_region     |-> NoneVal,
      mirrors           |-> NoneVal,
      swap              |-> NoneVal,
      bootloader        |-> "Systemd",
      nic               |-> NoneVal,
      packages          |-> <<>>,
      users             |-> NoneVal,
      audio             |-> NoneVal,
      profile_config    |-> NoneVal,
      timezone          |-> NoneVal,
      ntp               |-> FALSE,
      root_password     |-> NoneVal,
      services          |-> NoneVal,
      custom_commands   |-> NoneVal ]

\* The plans that differ from p in at most one key
Variants(p) ==
    {[p EXCEPT !.dry_run = v] : v \in BOOLEAN}
    \cup {[p EXCEPT !.silent = v] : v \in BOOLEAN}
    \cup {[p EXCEPT !.skip_mirror_check = v] : v \in BOOLEAN}
    \cup {[p EXCEPT !.config_type = v] : v \in {"Default", "Manual", "Pre_mount"}}
    \cup {[p EXCEPT !.disk_encryption = v] : v \in {NoneVal, "NoEncryption", "Luks"}}
    \cup {[p EXCEPT !.mirror_region = v] : v \in {NoneVal, "", "Germany"}}
    \cup {[p EXCEPT !.mirrors = v] : v \in {NoneVal, "custom"}}
    \cup {[p EXCEPT !.swap = v] : v \in {NoneVal, "False", "True"}}
    \cup {[p EXCEPT !.bootloader = v] : v \in {"Systemd", "Grub", "Efistub"}}
    \cup {[p EXCEPT !.nic = v] : v \in {NoneVal, "iso"}}
    \cup {[p EXCEPT !.packages = v] : v \in {<<>>, <<"">>, <<"vim">>, <<"", "vim">>}}
    \cup {[p EXCEPT !.users = v] : v \in {NoneVal, "user"}}
    \cup {[p EXCEPT !.audio = v] : v \in {NoneVal, "pipewire", "pulseaudio", "none"}}
    \cup {[p EXCEPT !.profile_config = v] : v \in {NoneVal, "profile"}}
    \cup {[p EXCEPT !.timezone = v] : v \in {NoneVal, "UTC"}}
    \cup {[p EXCEPT !.ntp = v] : v \in BOOLEAN}
    \cup {[p EXCEPT !.root_password = v] : v \in {NoneVal, "", "secret"}}
    \cup {[p EXCEPT !.services = v] : v \in {NoneVal, "sshd"}}
    \cup {[p EXCEPT !.custom_commands = v] : v \in {NoneVal, "cmd"}}

RECURSIVE PlansWithin(_)
PlansWithin(k) ==
    IF k = 0 THEN {MinimalPlan}
    ELSE UNION {Variants(p) : p \in PlansWithin(k - 1)}

Plans == PlansWithin(MaxChosen)

(* ---------------------------------------------------------------------- *)
(* The machine read by archinstall/lib/hardware.py                        *)
(* ---------------------------------------------------------------------- *)

\* /proc/cpuinfo: a line is the sequence of its parts between ':'
\* (<<>> is a blank line)
CpuFiles ==
    { [exists |-> FALSE, lines |-> <<>>],
      [exists |-> TRUE, lines |-> <<>>],
      [exists |-> TRUE,
       lines |-> << <<"vendor_id", "GenuineIntel">>, <<>>,
                    <<"model name", "Core", "i7">> >>],
      [exists |-> TRUE, lines |-> << <<"vendor_id", "AuthenticAMD">>, <<"garbage">> >>] }

\* /proc/meminfo: a line is the sequence of its parts between ':', a part is
\* the sequence of its words
MemFiles ==
    { [exists |-> FALSE, lines |-> <<>>],
      [exists |-> TRUE, lines |-> <<>>],
      [exists |-> TRUE,
       lines |-> << << <<"MemTotal">>, <<"16384", "kB">> >>,
                    << <<"MemFree">>, <<"8192", "kB">> >> >>],
      [exists |-> TRUE, lines |-> << << <<"MemFree">>, <<"8192", "kB">> >> >>],
      [exists |-> TRUE, lines |-> << << <<"MemTotal">>, <<>> >> >>],
      [exists |-> TRUE, lines |-> << << <<"MemTotal">>, <<"lots">> >> >>] }

\* lspci: the command fails, or prints lines; a line has a device class, may
\* lack the ': ' separator, and names the device in words
LspciRuns ==
    { [ok |-> FALSE, lines |-> <<>>],
      [ok |-> TRUE, lines |-> <<>>],
      [ok |-> TRUE,
       lines |-> << [class |-> "VGA", sep |-> TRUE, ident |-> <<"NVIDIA", "GA102">>],
                    [class |-> "Audio", sep |-> TRUE, ident |-> <<"Intel", "HDA">>] >>],
      [ok |-> TRUE,
       lines |-> << [class |-> "3D", sep |-> TRUE, ident |-> <<"AMD", "Navi">>] >>],
      [ok |-> TRUE,
       lines |-> << [class |-> "VGA", sep |-> FALSE, ident |-> <<"Intel", "UHD">>] >>] }

\* systemd-detect-virt: the command fails, or prints words and line ends
DetectVirtRuns ==
    { [ok |-> FALSE, out |-> <<>>],
      [ok |-> TRUE, out |-> <<"kvm", "\n">>],
      [ok |-> TRUE, out |-> <<"NONE", "\n">>],
      [ok |-> TRUE, out |-> <<"\n", "vmware", "\r", "\n">>] }

\* The types enrich_iface_types gives to the interfaces of list_interfaces
InterfaceTypes == { {}, {"PHYSICAL"}, {"PHYSICAL", "WIRELESS"} }

Machines ==
    [ cpuinfo : CpuFiles, meminfo : MemFiles, lspci : LspciRuns,
      detect_virt : DetectVirtRuns, ifaces : InterfaceTypes ]

\* The machine the installation script runs on (the script reads none of this)
InstallMachine ==
    [ cpuinfo |-> [exists |-> TRUE, lines |-> <<>>],
      meminfo |-> [exists |-> TRUE, lines |-> <<>>],
      lspci |-> [ok |-> TRUE, lines |-> <<>>],
      detect_virt |-> [ok |-> FALSE, out |-> <<>>],
      ifaces |-> {} ]

\* No detector has been called
Idle == [op |-> "none", arg |-> NoneVal, raised |-> NoneVal, value |-> NoneVal,
         debug |-> FALSE]

\* The example script before its first statement
NotStarted ==
    [ pc |-> "gather", calls |-> <<>>, failed |-> NoneVal, caught |-> NoneVal,
      scope |-> "none", exit_code |-> -1 ]

(* ---------------------------------------------------------------------- *)
(* Initial state: the script starts with the arguments parsed             *)
(* ---------------------------------------------------------------------- *)

Init ==
    /\ plan \in Plans
    /\ has_uefi \in BOOLEAN
    /\ reachable = "unchecked"
    /\ pc = "preflight"
    /\ calls = <<>>
    /\ failed = NoneVal
    /\ caught = NoneVal
    /\ scope = "none"
    /\ exit_code = -1
    /\ machine = InstallMachine
    /\ result = Idle
    /\ example = NotStarted

(* ---------------------------------------------------------------------- *)
(* Calls, exceptions and skipped steps                                    *)
(* ---------------------------------------------------------------------- *)

\* Running as it would be if an exception did not stop the statements that follow
RunningPastException == exit_code = -1

\* The script is executing statements: it has not exited and no exception
\* is unwinding
Running == exit_code = -1 /\ failed = NoneVal

\* Raise as it would be without the with statement: the exception ends the
\* process at once
RaiseWithoutContext(step) ==
    /\ failed' = step
    /\ pc' = pc
    /\ exit_code' = 1

\* An exception raised by a call: inside the with block it first leaves the
\* Installer context, outside of it the interpreter ends with exit code 1
Raise(step) ==
    /\ failed' = step
    /\ pc' = pc
    /\ exit_code' = IF scope = "held" THEN exit_code ELSE 1

\* A call of an external collaborator: it returns or it raises
Call(step, next) ==
    /\ calls' = Append(calls, step)
    /\ \E ok \in BOOLEAN :
         IF ok
         THEN pc' = next /\ UNCHANGED <<failed, exit_code>>
         ELSE Raise(step)
    /\ UNCHANGED <<example, machine, result, plan, has_uefi, reachable, caught, scope>>

\* A step whose condition is false
Skip(next) ==
    /\ pc' = next
    /\ UNCHANGED <<example, machine, result, plan, has_uefi, reachable, calls, failed, caught, scope, exit_code>>

\* A step guarded by a condition
Step(at, cond, step, next) ==
    /\ Running
    /\ pc = at
    /\ IF cond THEN Call(step, next) ELSE Skip(next)

\* A call of the interactive front end (no failure is modelled for it)
Interact(at, cond, step, next) ==
    /\ Running
    /\ pc = at
    /\ pc' = next
    /\ calls' = IF cond THEN Append(calls, step) ELSE calls
    /\ UNCHANGED <<example, machine, result, plan, has_uefi, reachable, failed, caught, scope, exit_code>>

(* ---------------------------------------------------------------------- *)
(* Module-level pipeline                                                  *)
(* ---------------------------------------------------------------------- *)

\* MirrorCheck as it would be if the skip flag were not consulted
MirrorCheckIgnoringSkip ==
    /\ Running
    /\ pc = "preflight"
    /\ \E r \in BOOLEAN :
         /\ calls' = Append(calls, "check_mirror_reachable")
         /\ reachable' = IF r THEN "True" ELSE "False"
         /\ IF r = FALSE
            THEN pc' = pc /\ exit_code' = 1
            ELSE pc' = "gather" /\ exit_code' = exit_code
    /\ UNCHANGED <<example, machine, result, plan, has_uefi, failed, caught, scope>>

\* if arguments.get('skip-mirror-check', False) is False
\*    and check_mirror_reachable() is False: exit(1)
MirrorCheck ==
    /\ Running
    /\ pc = "preflight"
    /\ IF plan.skip_mirror_check = FALSE
       THEN \E r \in BOOLEAN :
              /\ calls' = Append(calls, "check_mirror_reachable")
              /\ reachable' = IF r THEN "True" ELSE "False"
              /\ IF r = FALSE
                 THEN pc' = pc /\ exit_code' = 1
                 ELSE pc' = "gather" /\ exit_code' = exit_code
       ELSE pc' = "gather" /\ UNCHANGED <<calls, reachable, exit_code>>
    /\ UNCHANGED <<example, machine, result, plan, has_uefi, failed, caught, scope>>

AskUserQuestions == Interact("gather", ~plan.silent, "ask_user_questions", "show")

ShowConfig == Interact("show", ~plan.silent, "show", "save")

SaveConfig == Interact("save", TRUE, "save", "dry_run_gate")

\* DryRunGate as it would be if it only stopped silent runs
DryRunGateOnlySilent ==
    /\ Running
    /\ pc = "dry_run_gate"
    /\ IF plan.dry_run /\ plan.silent
       THEN pc' = pc /\ exit_code' = 0
       ELSE pc' = "confirm" /\ exit_code' = exit_code
    /\ UNCHANGED <<example, machine, result, plan, has_uefi, reachable, calls, failed, caught, scope>>

\* if arguments.get('dry_run'): exit(0)
DryRunGate ==
    /\ Running
    /\ pc = "dry_run_gate"
    /\ IF plan.dry_run
       THEN pc' = pc /\ exit_code' = 0
       ELSE pc' = "confirm" /\ exit_code' = exit_code
    /\ UNCHANGED <<example, machine, result, plan, has_uefi, reachable, calls, failed, caught, scope>>

\* PressEnter as it would be if the silent flag were not consulted
PressEnterAlways == Interact("confirm", TRUE, "input", "filesystem")

PressEnter == Interact("confirm", ~plan.silent, "input", "filesystem")

\* FilesystemOperations as it would be with the guard of the mount step
FilesystemOperationsGuarded ==
    Step("filesystem", plan.config_type # "Pre_mount",
         "perform_filesystem_operations", "enter_installer")

\* fs_handler.perform_filesystem_operations()
FilesystemOperations ==
    Step("filesystem", TRUE, "perform_filesystem_operations", "enter_installer")

(* ---------------------------------------------------------------------- *)
(* perform_installation                                                   *)
(* ---------------------------------------------------------------------- *)

\* with Installer(mountpoint, disk_config, ...) as installation:
EnterInstaller ==
    /\ Running
    /\ pc = "enter_installer"
    /\ scope' = "held"
    /\ pc' = "mount"
    /\ UNCHANGED <<example, machine, result, plan, has_uefi, reachable, calls, failed, caught, exit_code>>

PreMounted == plan.config_type = "Pre_mount"

\* Encrypting as it would be without the test of the encryption type
EncryptingAnyType == Truthy(plan.disk_encryption)

Encrypting == Truthy(plan.disk_encryption) /\ plan.disk_encryption # "NoEncryption"

\* MountOrderedLayout as it would be without its guard
MountOrderedLayoutAlways ==
    Step("mount", TRUE, "mount_ordered_layout", "sanity_check")

MountOrderedLayout ==
    Step("mount", ~PreMounted, "mount_ordered_layout", "sanity_check")

\* SanityCheck as it would be under the guard of the mount step
SanityCheckUnlessPreMounted ==
    Step("sanity_check", ~PreMounted, "sanity_check", "key_files")

SanityCheck ==
    Step("sanity_check", TRUE, "sanity_check", "key_files")

GenerateKeyFiles ==
    Step("key_files", ~PreMounted /\ Encrypting, "generate_key_files", "use_mirrors")

UseMirrors ==
    Step("use_mirrors", Truthy(plan.mirror_region), "use_mirrors", "minimal_installation")

MinimalInstallation ==
    Step("minimal_installation", TRUE, "minimal_installation", "set_mirrors")

SetMirrors ==
    Step("set_mirrors", plan.mirror_region # NoneVal /\ plan.mirrors # NoneVal,
         "set_mirrors", "swap")

\* SetupSwap as it would be if only an explicit False disabled it
SetupSwapUnlessFalse ==
    Step("swap", plan.swap # "False", "setup_swap", "grub_packages")

SetupSwap ==
    Step("swap", Truthy(plan.swap), "setup_swap", "grub_packages")

\* SysInfo.has_uefi(): os.path.isdir('/sys/firmware/efi')
HasUefi == has_uefi

\* GrubPackages as it would be without the firmware test
GrubPackagesAnyFirmware ==
    Step("grub_packages", plan.bootloader = "Grub",
         "add_additional_packages_grub", "bootloader")

GrubPackages ==
    Step("grub_packages", plan.bootloader = "Grub" /\ HasUefi,
         "add_additional_packages_grub", "bootloader")

AddBootloader ==
    Step("bootloader", TRUE, "add_bootloader", "network")

ConfigInstaller ==
    Step("network", Truthy(plan.nic), "config_installer", "packages")

\* PackagesChosen as it would be without the test of the first entry
PackagesChosenNonEmpty == Len(plan.packages) > 0

\* arguments.get('packages') and arguments.get('packages')[0] != ''
PackagesChosen == Len(plan.packages) > 0 /\ plan.packages[1] # ""

AddAdditionalPackages ==
    Step("packages", PackagesChosen, "add_additional_packages", "users")

CreateUsers ==
    Step("users", Truthy(plan.users), "create_users", "audio")

\* if audio := ...: info(installing); pipewire / pulseaudio   else: info(no audio)
AudioServer ==
    /\ Running
    /\ pc = "audio"
    /\ IF Truthy(plan.audio)
       THEN LET server == IF plan.audio = "pipewire"
                          THEN <<"PipewireProfile_install">>
                          ELSE IF plan.audio = "pulseaudio"
                               THEN <<"add_additional_packages_pulseaudio">>
                               ELSE <<>>
            IN /\ calls' = calls \o <<"info_installing_audio_server">> \o server
               /\ IF server = <<>>
                  THEN pc' = "profile" /\ UNCHANGED <<failed, exit_code>>
                  ELSE \E ok \in BOOLEAN :
                         IF ok
                         THEN pc' = "profile" /\ UNCHANGED <<failed, exit_code>>
                         ELSE Raise(server[1])
       ELSE /\ calls' = Append(calls, "info_no_audio_server")
            /\ pc' = "profile"
            /\ UNCHANGED <<failed, exit_code>>
    /\ UNCHANGED <<example, machine, result, plan, has_uefi, reachable, caught, scope>>

\* InstallProfileConfig as it would be if it were moved behind the keyboard
\* step and forgotten here
InstallProfileConfigDropped ==
    Step("profile", FALSE, "install_profile_config", "timezone")

InstallProfileConfig ==
    Step("profile", Truthy(plan.profile_config), "install_profile_config", "timezone")

SetTimezone ==
    Step("timezone", Truthy(plan.timezone), "set_timezone", "ntp")

ActivateTimeSyncronization ==
    Step("ntp", plan.ntp, "activate_time_syncronization", "espeakup")

\* EnableEspeakup as it would be inside a try/except that swallows the failure
EnableEspeakupBestEffort ==
    /\ Running
    /\ pc = "espeakup"
    /\ pc' = "root_password"
    /\ \E in_use \in BOOLEAN :
         IF in_use
         THEN \E ok \in BOOLEAN :
                /\ calls' = Append(calls, "enable_espeakup")
                /\ caught' = IF ok THEN caught ELSE "enable_espeakup"
         ELSE UNCHANGED <<calls, caught>>
    /\ UNCHANGED <<example, machine, result, plan, has_uefi, reachable, failed, scope, exit_code>>

\* if archinstall.accessibility_tools_in_use(): installation.enable_espeakup()
EnableEspeakup ==
    \E in_use \in BOOLEAN :
        Step("espeakup", in_use, "enable_espeakup", "root_password")

UserSetPw ==
    Step("root_password", Truthy(plan.root_password), "user_set_pw", "keyboard")

SetKeyboardLanguage ==
    Step("keyboard", TRUE, "set_keyboard_language", "post_install")

\* PostInstall as it would be if it repeated the profile installation instead
\* of calling the hook
PostInstallRepeatsInstall ==
    Step("post_install", Truthy(plan.profile_config), "install_profile_config", "services")

PostInstall ==
    Step("post_install", Truthy(plan.profile_config), "post_install", "services")

EnableService ==
    Step("services", Truthy(plan.services), "enable_service", "custom_commands")

RunCustomUserCommands ==
    Step("custom_commands", Truthy(plan.custom_commands),
         "run_custom_user_commands", "genfstab")

Genfstab ==
    Step("genfstab", TRUE, "genfstab", "chroot")

\* Chroot as it would be without the try/except around drop_to_shell
ChrootUnprotected ==
    /\ Running
    /\ pc = "chroot"
    /\ IF ~plan.silent
       THEN \E choice \in {"yes", "no"} :
              IF choice = "yes"
              THEN /\ calls' = calls \o <<"chroot_prompt", "drop_to_shell">>
                   /\ \E ok \in BOOLEAN :
                        IF ok
                        THEN pc' = "exit_installer" /\ UNCHANGED <<failed, exit_code>>
                        ELSE Raise("drop_to_shell")
              ELSE /\ calls' = Append(calls, "chroot_prompt")
                   /\ pc' = "exit_installer"
                   /\ UNCHANGED <<failed, exit_code>>
       ELSE pc' = "exit_installer" /\ UNCHANGED <<calls, failed, exit_code>>
    /\ UNCHANGED <<example, machine, result, plan, has_uefi, reachable, caught, scope>>

\* if not silent: choice = Menu(...).run(); if yes: try: drop_to_shell() except: pass
Chroot ==
    /\ Running
    /\ pc = "chroot"
    /\ pc' = "exit_installer"
    /\ IF ~plan.silent
       THEN \E choice \in {"yes", "no"} :
              IF choice = "yes"
              THEN \E ok \in BOOLEAN :
                     /\ calls' = calls \o <<"chroot_prompt", "drop_to_shell">>
                     /\ caught' = IF ok THEN caught ELSE "drop_to_shell"
              ELSE calls' = Append(calls, "chroot_prompt") /\ caught' = caught
       ELSE UNCHANGED <<calls, caught>>
    /\ UNCHANGED <<example, machine, result, plan, has_uefi, reachable, failed, scope, exit_code>>

\* Installer.__exit__ releases the mounted target
Release == scope' = "released"

\* Installer.__exit__ does not swallow the exception that ended the block
Propagates == failed # NoneVal

\* Leaving the with block, normally or by an exception
InstallerExit ==
    /\ exit_code = -1
    /\ scope = "held"
    /\ pc = "exit_installer" \/ failed # NoneVal
    /\ Release
    /\ IF Propagates
       THEN pc' = pc /\ exit_code' = 1
       ELSE pc' = "disk_states" /\ exit_code' = exit_code
    /\ UNCHANGED <<example, machine, result, plan, has_uefi, reachable, calls, failed, caught>>

\* debug(disk states); perform_installation returns and the script ends
Finish ==
    /\ Running
    /\ pc = "disk_states"
    /\ pc' = "end"
    /\ exit_code' = 0
    /\ UNCHANGED <<example, machine, result, plan, has_uefi, reachable, calls, failed, caught, scope>>

(* ---------------------------------------------------------------------- *)
(* archinstall/lib/hardware.py                                            *)
(* ---------------------------------------------------------------------- *)

\* A detector returns v
Returns(op, arg, v) ==
    [op |-> op, arg |-> arg, raised |-> NoneVal, value |-> v, debug |-> FALSE]

\* A detector raises e
Raises(op, arg, e) ==
    [op |-> op, arg |-> arg, raised |-> e, value |-> NoneVal, debug |-> FALSE]

\* The result of an inner call r, handed on by op unless the inner call raised
Propagate(op, arg, r, v) ==
    IF r.raised # NoneVal THEN Raises(op, arg, r.raised) ELSE Returns(op, arg, v)

\* str.lower() on the words of the model
Lower(w) ==
    CASE w = "NVIDIA" -> "nvidia"
      [] w = "AMD" -> "amd"
      [] w = "Intel" -> "intel"
      [] w = "NONE" -> "none"
      [] OTHER -> w

\* int() on the words of the model; any other word is a ValueError
Numerals == ("16384" :> 16384) @@ ("8192" :> 8192)

\* for line in file: if line := line.strip(): key, value = line.split(":", maxsplit=1)
RECURSIVE CpuParse(_, _)
CpuParse(lines, cpu) ==
    IF lines = <<>> THEN Returns("cpu_info", NoneVal, cpu)
    ELSE LET line == Head(lines)
         IN IF line = <<>> THEN CpuParse(Tail(lines), cpu)
            ELSE IF Len(line) < 2 THEN Raises("cpu_info", NoneVal, "ValueError")
            ELSE CpuParse(Tail(lines), (line[1] :> Tail(line)) @@ cpu)

\* cpu_info as it would be if a missing file gave an empty mapping
cpu_info_degrading ==
    IF ~machine.cpuinfo.exists
    THEN Returns("cpu_info", NoneVal, <<>>)
    ELSE CpuParse(machine.cpuinfo.lines, <<>>)

\* _SysInfo.cpu_info
cpu_info ==
    IF ~machine.cpuinfo.exists
    THEN Raises("cpu_info", NoneVal, "FileNotFoundError")
    ELSE CpuParse(machine.cpuinfo.lines, <<>>)

\* SysInfo.cpu_vendor / cpu_model: _sys_info.cpu_info.get(key, None)
cpu_get(key) ==
    LET r == cpu_info
    IN Propagate("cpu_get", key, r,
                 IF r.raised = NoneVal /\ key \in DOMAIN r.value
                 THEN r.value[key] ELSE NoneVal)

\* for line in file: key, value = line.strip().split(':');
\* num = value.split()[0]; mem_info[key] = int(num)
RECURSIVE MemParse(_, _)
MemParse(lines, mem) ==
    IF lines = <<>> THEN Returns("mem_info", NoneVal, mem)
    ELSE LET line == Head(lines)
         IN IF Len(line) # 2 THEN Raises("mem_info", NoneVal, "ValueError")
            ELSE IF line[2] = <<>> THEN Raises("mem_info", NoneVal, "IndexError")
            ELSE IF line[2][1] \notin DOMAIN Numerals
                 THEN Raises("mem_info", NoneVal, "ValueError")
            ELSE MemParse(Tail(lines), (line[1] :> Numerals[line[2][1]]) @@ mem)

\* _SysInfo.mem_info
mem_info ==
    IF ~machine.meminfo.exists
    THEN Raises("mem_info", NoneVal, "FileNotFoundError")
    ELSE MemParse(machine.meminfo.lines, <<>>)

\* _SysInfo.mem_info_by_key: self.mem_info[key]
mem_info_by_key(key) ==
    LET r == mem_info
    IN IF r.raised # NoneVal THEN Raises("mem_info_by_key", key, r.raised)
       ELSE IF <<key>> \notin DOMAIN r.value THEN Raises("mem_info_by_key", key, "KeyError")
       ELSE Returns("mem_info_by_key", key, r.value[<<key>>])

\* for line in SysCommand("lspci"): if b' VGA ' in line or b' 3D ' in line:
\*     _, identifier = line.split(b': ', 1); cards[identifier] = str(line)
RECURSIVE GraphicsParse(_, _)
GraphicsParse(lines, cards) ==
    IF lines = <<>> THEN Returns("_graphics_devices", NoneVal, cards)
    ELSE LET line == Head(lines)
         IN IF line.class \notin {"VGA", "3D"} THEN GraphicsParse(Tail(lines), cards)
            ELSE IF ~line.sep THEN Raises("_graphics_devices", NoneVal, "ValueError")
            ELSE GraphicsParse(Tail(lines), cards \cup {line.ident})

\* SysInfo._graphics_devices (the keys of the dictionary)
graphics_devices ==
    IF ~machine.lspci.ok
    THEN Raises("_graphics_devices", NoneVal, "SysCallError")
    ELSE GraphicsParse(machine.lspci.lines, {})

\* SysInfo.has_nvidia_graphics / has_amd_graphics / has_intel_graphics:
\* any(vendor in x.lower() for x in _graphics_devices())
has_graphics(vendor) ==
    LET r == graphics_devices
    IN Propagate("has_graphics", vendor, r,
                 r.raised = NoneVal
                 /\ \E x \in r.value : \E i \in DOMAIN x : Lower(x[i]) = vendor)

\* SysInfo.has_wifi: 'WIRELESS' in enrich_iface_types(ifaces).values()
has_wifi == Returns("has_wifi", NoneVal, "WIRELESS" \in machine.ifaces)

\* str.strip('\r\n')
RECURSIVE StripLeft(_)
StripLeft(out) ==
    IF out # <<>> /\ Head(out) \in {"\r", "\n"} THEN StripLeft(Tail(out)) ELSE out

RECURSIVE StripRight(_)
StripRight(out) ==
    IF out # <<>> /\ out[Len(out)] \in {"\r", "\n"}
    THEN StripRight(SubSeq(out, 1, Len(out) - 1)) ELSE out

Strip(out) == StripRight(StripLeft(out))

\* virtualization as it would be without the except clause
virtualization_unguarded ==
    IF machine.detect_virt.ok
    THEN Returns("virtualization", NoneVal, Strip(machine.detect_virt.out))
    ELSE Raises("virtualization", NoneVal, "SysCallError")

\* SysInfo.virtualization: the output of systemd-detect-virt; on SysCallError
\* a debug line and None
virtualization ==
    IF machine.detect_virt.ok
    THEN Returns("virtualization", NoneVal, Strip(machine.detect_virt.out))
    ELSE [Returns("virtualization", NoneVal, NoneVal) EXCEPT !.debug = TRUE]

\* SysInfo.is_vm: b"none" not in b"".join(result).lower(); on SysCallError a
\* debug line and False
is_vm ==
    IF machine.detect_virt.ok
    THEN Returns("is_vm", NoneVal,
                 \A i \in DOMAIN machine.detect_virt.out :
                     Lower(machine.detect_virt.out[i]) # "none")
    ELSE [Returns("is_vm", NoneVal, FALSE) EXCEPT !.debug = TRUE]

\* SysInfo.has_uefi as a detector call
has_uefi_read == Returns("has_uefi", NoneVal, HasUefi)

\* A call of a detector leaves its outcome in result
Detect(r) ==
    /\ result' = r
    /\ UNCHANGED <<example, machine, has_uefi, script>>

DetectUefi == Detect(has_uefi_read)

DetectWifi == Detect(has_wifi)

DetectGraphicsDevices == Detect(graphics_devices)

DetectGraphicsVendor == \E vendor \in {"nvidia", "amd", "intel"} : Detect(has_graphics(vendor))

DetectCpuInfo == Detect(cpu_info)

DetectCpuKey == \E key \in {"vendor_id", "model name"} : Detect(cpu_get(key))

DetectMemInfo == Detect(mem_info)

DetectMemKey ==
    \E key \in {"MemAvailable", "MemFree", "MemTotal"} : Detect(mem_info_by_key(key))

DetectVirtualization == Detect(virtualization)

DetectIsVm == Detect(is_vm)

\* The detectors called on any machine
HwInit ==
    /\ machine \in Machines
    /\ has_uefi \in BOOLEAN
    /\ result = Idle
    /\ plan = MinimalPlan
    /\ reachable = "unchecked"
    /\ pc = "preflight"
    /\ calls = <<>>
    /\ failed = NoneVal
    /\ caught = NoneVal
    /\ scope = "none"
    /\ exit_code = -1
    /\ example = NotStarted

HwNext ==
    \/ DetectUefi
    \/ DetectWifi
    \/ DetectGraphicsDevices
    \/ DetectGraphicsVendor
    \/ DetectCpuInfo
    \/ DetectCpuKey
    \/ DetectMemInfo
    \/ DetectMemKey
    \/ DetectVirtualization
    \/ DetectIsVm

HwSpec == HwInit /\ [][HwNext]_vars

(* ---------------------------------------------------------------------- *)
(* Reading a run                                                          *)
(* ---------------------------------------------------------------------- *)

\* The statements of the script in program order
PcOrder ==
    << "preflight", "gather", "show", "save", "dry_run_gate", "confirm",
       "filesystem", "enter_installer", "mount", "sanity_check", "key_files",
       "use_mirrors", "minimal_installation", "set_mirrors", "swap",
       "grub_packages", "bootloader", "network", "packages", "users", "audio",
       "profile", "timezone", "ntp", "espeakup", "root_password", "keyboard",
       "post_install", "services", "custom_commands", "genfstab", "chroot",
       "exit_installer", "disk_states", "end" >>

Pos(l) == CHOOSE i \in DOMAIN PcOrder : PcOrder[i] = l

\* The statement at l has been executed: the script is past it, or it is the
\* statement that raised
Decided(l) == Pos(pc) > Pos(l) \/ (pc = l /\ failed # NoneVal)

\* The script has called step
Called(step) == \E i \in DOMAIN calls : calls[i] = step

\* Every call of a comes before every call of b
Before(a, b) ==
    \A i, j \in DOMAIN calls : calls[i] = a /\ calls[j] = b => i < j

Exited == exit_code # -1

(* ---------------------------------------------------------------------- *)
(* examples/interactive_installation.py                                   *)
(* ---------------------------------------------------------------------- *)

\* The example script is run once the run of the guided script is over and
\* has reached the disk: from there on every call has an outcome to meet again
Replaying == Exited /\ Pos(pc) >= Pos("filesystem")

\* The outcome of a call in the run of the guided script: it returned (or was
\* not made), or it raised
Returned(step) == failed # step /\ caught # step

\* The class of an exception drop_to_shell raised: a subclass of Exception
\* (SysCallError), or of BaseException only (KeyboardInterrupt, SystemExit).
\* The bare except of the guided script catches both.
ExceptionKinds == {"Exception", "BaseException"}

ExampleRunning == example.exit_code = -1 /\ example.failed = NoneVal

\* An exception raised by a call of the example script
ExampleRaise(e, step) ==
    [e EXCEPT !.failed = step,
              !.exit_code = IF e.scope = "held" THEN e.exit_code ELSE 1]

\* A call of the example script: it returns or raises as it did for the
\* guided script
ExampleCall(e, step, next) ==
    LET called == [e EXCEPT !.calls = Append(@, step)]
    IN  IF Returned(step)
        THEN [called EXCEPT !.pc = next]
        ELSE ExampleRaise(called, step)

\* A statement of the example script
ExampleStatement(at, after) ==
    /\ Replaying
    /\ ExampleRunning
    /\ example.pc = at
    /\ example' = after
    /\ UNCHANGED <<machine, result, has_uefi, script>>

\* A step of the example script guarded by a condition
ExampleStep(at, cond, step, next) ==
    ExampleStatement(at, IF cond
                         THEN ExampleCall(example, step, next)
                         ELSE [example EXCEPT !.pc = next])

\* ask_user_questions(): no silent flag is consulted
ExampleAskUserQuestions ==
    ExampleStatement("gather",
        [example EXCEPT !.calls = Append(@, "ask_user_questions"), !.pc = "filesystem"])

\* fs_handler.perform_filesystem_operations()
ExampleFilesystemOperations ==
    ExampleStep("filesystem", TRUE, "perform_filesystem_operations", "enter_installer")

\* with Installer(mountpoint, disk_config, ...) as installation:
ExampleEnterInstaller ==
    ExampleStatement("enter_installer",
        [example EXCEPT !.scope = "held", !.pc = "mount"])

ExampleMountOrderedLayout ==
    ExampleStep("mount", plan.config_type # "Pre_mount",
                "mount_ordered_layout", "sanity_check")

ExampleSanityCheck ==
    ExampleStep("sanity_check", TRUE, "sanity_check", "key_files")

ExampleGenerateKeyFiles ==
    ExampleStep("key_files",
                /\ plan.config_type # "Pre_mount"
                /\ Truthy(plan.disk_encryption)
                /\ plan.disk_encryption # "NoEncryption",
                "generate_key_files", "use_mirrors")

ExampleUseMirrors ==
    ExampleStep("use_mirrors", Truthy(plan.mirror_region),
                "use_mirrors", "minimal_installation")

ExampleMinimalInstallation ==
    ExampleStep("minimal_installation", TRUE, "minimal_installation", "set_mirrors")

ExampleSetMirrors ==
    ExampleStep("set_mirrors", plan.mirror_region # NoneVal /\ plan.mirrors # NoneVal,
                "set_mirrors", "swap")

ExampleSetupSwap ==
    ExampleStep("swap", Truthy(plan.swap), "setup_swap", "grub_packages")

ExampleGrubPackages ==
    ExampleStep("grub_packages", plan.bootloader = "Grub" /\ has_uefi,
                "add_additional_packages_grub", "bootloader")

ExampleAddBootloader ==
    ExampleStep("bootloader", TRUE, "add_bootloader", "network")

ExampleConfigInstaller ==
    ExampleStep("network", Truthy(plan.nic), "config_installer", "packages")

\* the packages are passed as arguments.get('packages', []): under the guard
\* the key is present and the default is not used
ExampleAddAdditionalPackages ==
    ExampleStep("packages", Len(plan.packages) > 0 /\ plan.packages[1] # "",
                "add_additional_packages", "users")

ExampleCreateUsers ==
    ExampleStep("users", Truthy(plan.users), "create_users", "audio")

\* if audio := ...: info(installing); pipewire / pulseaudio
\* else: info("No audio server will be installed.")
ExampleAudioServer ==
    ExampleStatement("audio",
        IF Truthy(plan.audio)
        THEN LET logged == [example EXCEPT
                               !.calls = Append(@, "info_installing_audio_server")]
             IN  IF plan.audio = "pipewire"
                 THEN ExampleCall(logged, "PipewireProfile_install", "profile")
                 ELSE IF plan.audio = "pulseaudio"
                      THEN ExampleCall(logged, "add_additional_packages_pulseaudio",
                                       "profile")
                      ELSE [logged EXCEPT !.pc = "profile"]
        ELSE [example EXCEPT !.calls = Append(@, "info_no_audio_server."),
                             !.pc = "profile"])

ExampleInstallProfileConfig ==
    ExampleStep("profile", Truthy(plan.profile_config),
                "install_profile_config", "timezone")

ExampleSetTimezone ==
    ExampleStep("timezone", Truthy(plan.timezone), "set_timezone", "ntp")

ExampleActivateTimeSyncronization ==
    ExampleStep("ntp", plan.ntp, "activate_time_syncronization", "espeakup")

\* if archinstall.accessibility_tools_in_use(): installation.enable_espeakup()
\* (the tools are in use iff they were for the guided script)
ExampleEnableEspeakup ==
    ExampleStep("espeakup", Called("enable_espeakup"),
                "enable_espeakup", "root_password")

ExampleUserSetPw ==
    ExampleStep("root_password", Truthy(plan.root_password), "user_set_pw", "keyboard")

ExampleSetKeyboardLanguage ==
    ExampleStep("keyboard", TRUE, "set_keyboard_language", "post_install")

ExamplePostInstall ==
    ExampleStep("post_install", Truthy(plan.profile_config), "post_install", "services")

ExampleEnableService ==
    ExampleStep("services", Truthy(plan.services), "enable_service", "custom_commands")

ExampleRunCustomUserCommands ==
    ExampleStep("custom_commands", Truthy(plan.custom_commands),
                "run_custom_user_commands", "genfstab")

ExampleGenfstab ==
    ExampleStep("genfstab", TRUE, "genfstab", "chroot")

\* if not silent: choice = Menu(...).run()
\*     if yes: try: drop_to_shell() except Exception: pass
\* (the user answers as for the guided script; an exception that is not an
\* Exception is not caught)
ExampleChroot ==
    \E kind \in ExceptionKinds :
        ExampleStatement("chroot",
            IF ~plan.silent
            THEN IF Called("drop_to_shell")
                 THEN LET shell == [example EXCEPT
                                       !.calls = @ \o <<"chroot_prompt", "drop_to_shell">>]
                      IN  IF Returned("drop_to_shell")
                          THEN [shell EXCEPT !.pc = "exit_installer"]
                          ELSE IF kind = "Exception"
                               THEN [shell EXCEPT !.caught = "drop_to_shell",
                                                  !.pc = "exit_installer"]
                               ELSE ExampleRaise(shell, "drop_to_shell")
                 ELSE [example EXCEPT !.calls = Append(@, "chroot_prompt"),
                                      !.pc = "exit_installer"]
            ELSE [example EXCEPT !.pc = "exit_installer"])

\* Installer.__exit__ releases the mounted target
ExampleRelease(e) == [e EXCEPT !.scope = "released"]

\* Installer.__exit__ does not swallow the exception that ended the block
ExamplePropagates(e) == e.failed # NoneVal

\* Leaving the with block, normally or by an exception
ExampleInstallerExit ==
    /\ Replaying
    /\ example.exit_code = -1
    /\ example.scope = "held"
    /\ example.pc = "exit_installer" \/ example.failed # NoneVal
    /\ example' = IF ExamplePropagates(example)
                  THEN [ExampleRelease(example) EXCEPT !.exit_code = 1]
                  ELSE [ExampleRelease(example) EXCEPT !.pc = "disk_states"]
    /\ UNCHANGED <<machine, result, has_uefi, script>>

\* debug(disk states); perform_installation returns and the script ends
ExampleFinish ==
    ExampleStatement("disk_states", [example EXCEPT !.pc = "end", !.exit_code = 0])

(* ---------------------------------------------------------------------- *)
(* Properties                                                             *)
(* ---------------------------------------------------------------------- *)

MutatingSteps ==
    { "perform_filesystem_operations", "mount_ordered_layout",
      "generate_key_files", "minimal_installation", "setup_swap",
      "add_bootloader", "add_additional_packages", "genfstab" }

\* C1: with dry_run set, the script never gets past the dry-run gate, none of
\* the filesystem-mutating steps (4, 5, 7, 9, 11, 13, 15, 27) is ever called,
\* and once the plan is saved the process can only exit with code 0 (and an
\* exit with code 0 comes after the save).
C1_DryRunStopsAtGate ==
    plan.dry_run =>
        /\ Pos(pc) <= Pos("dry_run_gate")
        /\ \A s \in MutatingSteps : ~Called(s)
        /\ scope = "none"
        /\ Exited /\ Called("save") => exit_code = 0 /\ pc = "dry_run_gate"
        /\ Exited /\ exit_code = 0 => Called("save")

C1_Witness ==
    plan.dry_run /\ Exited /\ exit_code = 0 /\ Called("save") /\ pc = "dry_run_gate"

\* C2: a failed mirror check with skip_mirror_check false ends the process
\* with code 1 when nothing but the check has been called (no gathering, no
\* save, no disk step); with skip_mirror_check true the check is not made and
\* no run ends before the plan is saved.
C2_MirrorPreflight ==
    /\ (reachable = "False" /\ ~plan.skip_mirror_check) =>
          /\ Exited /\ exit_code = 1
          /\ pc = "preflight"
          /\ calls = <<"check_mirror_reachable">>
          /\ scope = "none"
    /\ plan.skip_mirror_check =>
          /\ reachable = "unchecked"
          /\ ~Called("check_mirror_reachable")
          /\ Exited => Called("save")

C2_Witness ==
    reachable = "False" /\ ~plan.skip_mirror_check /\ exit_code = 1

\* C3: when a profile config is present, a call of set_keyboard_language
\* (step 23) has the completed install_profile_config (step 18) before it,
\* and a call of post_install (step 24) has step 23 before it.
C3_KeyboardAfterProfile ==
    Truthy(plan.profile_config) =>
        /\ Called("set_keyboard_language") =>
              /\ Called("install_profile_config")
              /\ failed # "install_profile_config"
              /\ Before("install_profile_config", "set_keyboard_language")
        /\ Called("post_install") =>
              /\ Called("set_keyboard_language")
              /\ failed # "set_keyboard_language"
              /\ Before("set_keyboard_language", "post_install")

C3_Witness ==
    /\ Truthy(plan.profile_config)
    /\ Called("install_profile_config")
    /\ Called("set_keyboard_language")
    /\ Called("post_install")

\* C4: once the script is past step 12, the grub package was installed iff
\* the bootloader is Grub and has_uefi holds; without UEFI it is never
\* installed, and add_bootloader (step 13) is still called.
C4_GrubOnlyOnUefi ==
    /\ Called("add_additional_packages_grub") =>
          plan.bootloader = "Grub" /\ has_uefi
    /\ Decided("grub_packages") =>
          (Called("add_additional_packages_grub")
              <=> (plan.bootloader = "Grub" /\ has_uefi))
    /\ ~has_uefi /\ Decided("bootloader") => Called("add_bootloader")

C4_Witness ==
    /\ plan.bootloader = "Grub" /\ ~has_uefi
    /\ ~Called("add_additional_packages_grub")
    /\ Called("add_bootloader")

FatalSteps ==
    { "perform_filesystem_operations", "mount_ordered_layout",
      "minimal_installation", "add_bootloader" }

StepsAfterBaseInstall ==
    { "set_mirrors", "setup_swap", "add_additional_packages_grub",
      "add_bootloader", "config_installer", "add_additional_packages",
      "create_users", "PipewireProfile_install",
      "info_installing_audio_server", "add_additional_packages_pulseaudio",
      "info_no_audio_server",
      "install_profile_config", "set_timezone", "activate_time_syncronization",
      "enable_espeakup", "user_set_pw", "set_keyboard_language", "post_install",
      "enable_service", "run_custom_user_commands", "genfstab",
      "chroot_prompt", "drop_to_shell" }

\* C5: after a fatal step (4, 5, 9, 13) has failed, the failed call is and
\* stays the last call of the run: no later step and no compensating action
\* is called; after a failure of step 9 none of the steps 10-28 has been
\* called.
C5_FatalFailureStops ==
    failed \in FatalSteps =>
        /\ calls # <<>> /\ calls[Len(calls)] = failed
        /\ \A i \in DOMAIN calls : calls[i] = failed => i = Len(calls)
        /\ failed = "minimal_installation" =>
              \A s \in StepsAfterBaseInstall : ~Called(s)

C5_Witness ==
    failed = "minimal_installation" /\ Exited /\ Called("mount_ordered_layout")

\* C6: the Installer context entered before step 5 is left on every exit
\* path: no exited process still holds it, whether the block ended normally,
\* by a failed step or after an exception in the chroot shell.
C6_ScopeReleased ==
    /\ Exited => scope # "held"
    /\ Pos(pc) > Pos("exit_installer") => scope = "released"
    /\ scope = "held" => Pos(pc) >= Pos("mount") /\ Pos(pc) <= Pos("exit_installer")

C6_Witness ==
    Exited /\ scope = "released" /\ failed = "minimal_installation"

\* C7: for a pre-mounted disk_config, mount_ordered_layout (step 5) is never
\* called, and sanity_check (step 6) is called once the script gets there.
C7_PreMountedNeverMounts ==
    PreMounted =>
        /\ ~Called("mount_ordered_layout")
        /\ Decided("sanity_check") => Called("sanity_check")

C7_Witness ==
    PreMounted /\ Called("sanity_check") /\ Truthy(plan.disk_encryption)

\* C8 as stated: once the script is past step 4, perform_filesystem_operations
\* was called iff the disk_config is not pre-mounted.
C8_FilesystemOperationsIffNotPreMounted ==
    Decided("filesystem") =>
        (Called("perform_filesystem_operations") <=> ~PreMounted)

\* C8 amended: the pipeline calls perform_filesystem_operations in every run
\* that gets past the dry-run gate, whatever the disk_config mode is
\* (pre-mounted included), and in no other run.
C8_FilesystemOperationsAlways ==
    /\ Decided("filesystem") => Called("perform_filesystem_operations")
    /\ Called("perform_filesystem_operations") =>
          ~plan.dry_run /\ Pos(pc) >= Pos("filesystem")

C8_Witness ==
    PreMounted /\ Called("perform_filesystem_operations")

\* C9: once the script is past step 11, setup_swap was called iff swap is
\* true; with swap false or absent it is never called.
C9_SwapIffChosen ==
    /\ Called("setup_swap") => plan.swap = "True"
    /\ Decided("swap") => (Called("setup_swap") <=> plan.swap = "True")

C9_Witness ==
    plan.swap = "True" /\ Called("setup_swap")

AudioChosen == plan.audio \notin {NoneVal, "none"}

AudioInstalled ==
    Called("PipewireProfile_install") \/ Called("add_additional_packages_pulseaudio")

\* C10 as stated: once the script is past step 17, an audio server was
\* installed iff one was chosen, otherwise (audio absent or none) the
\* "no audio server" line was logged; exactly one of the two happened.
C10_AudioInstallOrLog ==
    Decided("audio") =>
        /\ AudioInstalled <=> AudioChosen
        /\ ~AudioChosen => Called("info_no_audio_server")
        /\ AudioInstalled # Called("info_no_audio_server")

\* The number of the pipeline step a call belongs to (0: not a step, i.e. a
\* call of the interactive front end or a log line)
StepNo(c) ==
    CASE c = "check_mirror_reachable" -> 1
      [] c = "save" -> 2
      [] c = "perform_filesystem_operations" -> 4
      [] c = "mount_ordered_layout" -> 5
      [] c = "sanity_check" -> 6
      [] c = "generate_key_files" -> 7
      [] c = "use_mirrors" -> 8
      [] c = "minimal_installation" -> 9
      [] c = "set_mirrors" -> 10
      [] c = "setup_swap" -> 11
      [] c = "add_additional_packages_grub" -> 12
      [] c = "add_bootloader" -> 13
      [] c = "config_installer" -> 14
      [] c = "add_additional_packages" -> 15
      [] c = "create_users" -> 16
      [] c = "PipewireProfile_install" -> 17
      [] c = "add_additional_packages_pulseaudio" -> 17
      [] c = "install_profile_config" -> 18
      [] c = "set_timezone" -> 19
      [] c = "activate_time_syncronization" -> 20
      [] c = "enable_espeakup" -> 21
      [] c = "user_set_pw" -> 22
      [] c = "set_keyboard_language" -> 23
      [] c = "post_install" -> 24
      [] c = "enable_service" -> 25
      [] c = "run_custom_user_commands" -> 26
      [] c = "genfstab" -> 27
      [] c = "drop_to_shell" -> 28
      [] OTHER -> 0

\* The steps whose execution is decided by the plan and the firmware alone
\* (1, 21 and 28 also depend on the mirror check, the accessibility probe and
\* the user's answer), in the declared order, with the condition of each
PlanDecided ==
    << <<"save", TRUE>>,
       <<"perform_filesystem_operations", TRUE>>,
       <<"mount_ordered_layout", plan.config_type # "Pre_mount">>,
       <<"sanity_check", TRUE>>,
       <<"generate_key_files",
         plan.config_type # "Pre_mount" /\ plan.disk_encryption = "Luks">>,
       <<"use_mirrors", plan.mirror_region = "Germany">>,
       <<"minimal_installation", TRUE>>,
       <<"set_mirrors", plan.mirror_region # NoneVal /\ plan.mirrors # NoneVal>>,
       <<"setup_swap", plan.swap = "True">>,
       <<"add_additional_packages_grub", plan.bootloader = "Grub" /\ has_uefi>>,
       <<"add_bootloader", TRUE>>,
       <<"config_installer", plan.nic # NoneVal>>,
       <<"add_additional_packages",
         plan.packages # <<>> /\ Head(plan.packages) # "">>,
       <<"create_users", plan.users # NoneVal>>,
       <<"PipewireProfile_install", plan.audio = "pipewire">>,
       <<"add_additional_packages_pulseaudio", plan.audio = "pulseaudio">>,
       <<"install_profile_config", plan.profile_config # NoneVal>>,
       <<"set_timezone", plan.timezone # NoneVal>>,
       <<"activate_time_syncronization", plan.ntp>>,
       <<"user_set_pw", plan.root_password = "secret">>,
       <<"set_keyboard_language", TRUE>>,
       <<"post_install", plan.profile_config # NoneVal>>,
       <<"enable_service", plan.services # NoneVal>>,
       <<"run_custom_user_commands", plan.custom_commands # NoneVal>>,
       <<"genfstab", TRUE>> >>

IsPlanDecided(c) == \E k \in DOMAIN PlanDecided : PlanDecided[k][1] = c

RECURSIVE Names(_)
Names(pairs) ==
    IF pairs = <<>> THEN <<>> ELSE <<Head(pairs)[1]>> \o Names(Tail(pairs))

Wanted(pair) == pair[2]

\* C11: the steps a run has called are in strictly increasing step number
\* (so each at most once and never before a lower-numbered one); an exception
\* only comes from a call that was made, never from a skipped step; and the
\* plan-decided steps of a completed run are exactly those whose condition
\* holds, in the declared order (one sequence per plan and firmware).
C11_FixedOrder ==
    /\ \A i, j \in DOMAIN calls :
          (i < j /\ StepNo(calls[i]) > 0 /\ StepNo(calls[j]) > 0)
              => StepNo(calls[i]) < StepNo(calls[j])
    /\ failed # NoneVal => calls # <<>> /\ calls[Len(calls)] = failed
    /\ pc = "end" =>
          SelectSeq(calls, IsPlanDecided) = Names(SelectSeq(PlanDecided, Wanted))

C11_Witness ==
    /\ pc = "end"
    /\ plan.config_type = "Pre_mount"
    /\ plan.profile_config # NoneVal
    /\ Called("post_install")
    /\ ~Called("mount_ordered_layout")

StepsAfterEspeakup ==
    { "user_set_pw", "set_keyboard_language", "post_install", "enable_service",
      "run_custom_user_commands", "genfstab", "chroot_prompt", "drop_to_shell" }

\* C12 as stated: a failure of enable_espeakup (step 21) is swallowed: it is
\* never the exception that ends the run, and the exit code of a run in which
\* it failed is not changed by it.
C12_EspeakupBestEffort ==
    /\ failed # "enable_espeakup"
    /\ Called("enable_espeakup") /\ pc = "end" => exit_code = 0

\* C12 amended: step 21 is fatal like the other steps of the block: when
\* enable_espeakup fails its exception is not caught, it is the last call of
\* the run (step 22 and the later steps are not executed), and the process
\* ends with exit code 1 after leaving the Installer context.
C12_EspeakupFatal ==
    /\ caught # "enable_espeakup"
    /\ failed = "enable_espeakup" =>
          /\ pc = "espeakup"
          /\ calls[Len(calls)] = "enable_espeakup"
          /\ \A s \in StepsAfterEspeakup : ~Called(s)
          /\ Exited => exit_code = 1 /\ scope = "released"

C12_Witness ==
    failed = "enable_espeakup" /\ Exited /\ exit_code = 1

\* C13 as stated: drop_to_shell (step 28) is called only in a run that is not
\* silent, after the prompt and after genfstab (27); a failure inside it is
\* logged (a call follows the failed drop_to_shell) and ignored: the run ends
\* with exit code 0 and the context released.
C13_ChrootFailureLoggedAndIgnored ==
    /\ Called("drop_to_shell") =>
          /\ ~plan.silent
          /\ Before("chroot_prompt", "drop_to_shell")
          /\ Called("genfstab") /\ Before("genfstab", "drop_to_shell")
    /\ caught = "drop_to_shell" =>
          /\ calls[Len(calls)] # "drop_to_shell"
          /\ failed = NoneVal
          /\ Exited => exit_code = 0 /\ scope = "released"

\* C13 amended: as stated, except that the failure is not logged: the failed
\* drop_to_shell is the last call of the run, the exception is swallowed, and
\* the run ends with exit code 0 and the context released.
C13_ChrootFailureIgnored ==
    /\ Called("drop_to_shell") =>
          /\ ~plan.silent
          /\ Called("chroot_prompt") /\ Before("chroot_prompt", "drop_to_shell")
          /\ Called("genfstab") /\ Before("genfstab", "drop_to_shell")
    /\ failed # "drop_to_shell"
    /\ caught = "drop_to_shell" =>
          /\ calls[Len(calls)] = "drop_to_shell"
          /\ failed = NoneVal
          /\ Pos(pc) >= Pos("exit_installer")
          /\ Exited => exit_code = 0 /\ scope = "released" /\ pc = "end"

C13_Witness ==
    caught = "drop_to_shell" /\ Exited /\ exit_code = 0 /\ scope = "released"

\* C14 as stated: when systemd-detect-virt fails, virtualization returns
\* "unknown", logs and does not raise; is_vm returns false and does not raise.
C14_VirtualizationUnknown ==
    /\ (result.op = "virtualization" /\ ~machine.detect_virt.ok) =>
          result.raised = NoneVal /\ result.debug /\ result.value = "unknown"
    /\ (result.op = "is_vm" /\ ~machine.detect_virt.ok) =>
          result.raised = NoneVal /\ result.value = FALSE

\* C14 amended: when systemd-detect-virt fails, virtualization returns None
\* (not the string "unknown"), writes a debug line and does not raise; is_vm
\* writes a debug line, returns false and does not raise.
C14_VirtualizationNone ==
    /\ (result.op = "virtualization" /\ ~machine.detect_virt.ok) =>
          result.raised = NoneVal /\ result.debug /\ result.value = NoneVal
    /\ (result.op = "is_vm" /\ ~machine.detect_virt.ok) =>
          result.raised = NoneVal /\ result.debug /\ result.value = FALSE

C14_Witness ==
    result.op = "virtualization" /\ ~machine.detect_virt.ok /\ result.debug

NoDisplayDevice ==
    \A i \in DOMAIN machine.lspci.lines :
        machine.lspci.lines[i].class \notin {"VGA", "3D"}

\* C15 as stated: no detector raises, and each returns the conservative
\* value when its source is missing or fails.
C15_DetectorsNeverAbort ==
    /\ result.raised = NoneVal
    /\ (result.op = "has_uefi" /\ ~has_uefi) => result.value = FALSE
    /\ (result.op = "has_wifi" /\ machine.ifaces = {}) => result.value = FALSE
    /\ (result.op = "has_graphics" /\ ~machine.lspci.ok) => result.value = FALSE
    /\ (result.op = "virtualization" /\ ~machine.detect_virt.ok) =>
          result.value = NoneVal
    /\ (result.op = "is_vm" /\ ~machine.detect_virt.ok) => result.value = FALSE
    /\ (result.op = "cpu_get" /\ ~machine.cpuinfo.exists) => result.value = NoneVal

\* C15 amended: has_uefi, has_wifi, virtualization and is_vm never raise and
\* return false / None when the marker, the wireless interface or the tool is
\* missing; the gpu detectors return false when no display device is listed
\* but raise SysCallError when lspci fails; cpu_info and mem_info and the
\* readers built on them raise FileNotFoundError when their pseudo-file is
\* missing.
C15_DetectorsDegradeOrRaise ==
    /\ result.op \in {"has_uefi", "has_wifi", "virtualization", "is_vm"} =>
          result.raised = NoneVal
    /\ (result.op = "has_uefi" /\ ~has_uefi) => result.value = FALSE
    /\ (result.op = "has_wifi" /\ "WIRELESS" \notin machine.ifaces) =>
          result.value = FALSE
    /\ (result.op = "virtualization" /\ ~machine.detect_virt.ok) =>
          result.value = NoneVal
    /\ (result.op = "is_vm" /\ ~machine.detect_virt.ok) => result.value = FALSE
    /\ (result.op = "has_graphics" /\ machine.lspci.ok /\ NoDisplayDevice) =>
          result.raised = NoneVal /\ result.value = FALSE
    /\ (result.op \in {"_graphics_devices", "has_graphics"} /\ ~machine.lspci.ok) =>
          result.raised = "SysCallError"
    /\ (result.op \in {"cpu_info", "cpu_get"} /\ ~machine.cpuinfo.exists) =>
          result.raised = "FileNotFoundError"
    /\ (result.op \in {"mem_info", "mem_info_by_key"} /\ ~machine.meminfo.exists) =>
          result.raised = "FileNotFoundError"

C15_Witness ==
    result.op = "cpu_get" /\ ~machine.cpuinfo.exists /\ result.raised = "FileNotFoundError"

\* C16 as stated: once the script is past step 15, add_additional_packages
\* was called iff the package list is non-empty.
C16_PackagesIffNonEmpty ==
    Decided("packages") =>
        (Called("add_additional_packages") <=> plan.packages # <<>>)

\* C16 amended: add_additional_packages is called iff the package list is
\* non-empty and its first entry is not the empty string; a non-empty list
\* that starts with '' is skipped.
C16_PackagesIffFirstEntry ==
    /\ Called("add_additional_packages") =>
          plan.packages # <<>> /\ Head(plan.packages) # ""
    /\ Decided("packages") =>
          (Called("add_additional_packages")
              <=> (plan.packages # <<>> /\ Head(plan.packages) # ""))

C16_Witness ==
    /\ plan.packages = <<"", "vim">>
    /\ Decided("packages")
    /\ ~Called("add_additional_packages")

RegionChosen == plan.mirror_region \notin {NoneVal, ""}

\* C17 as stated: use_mirrors (step 8) is called iff a mirror region was
\* chosen, set_mirrors (step 10) iff a region and a mirror list were chosen;
\* step 8 comes before minimal_installation (9) and step 10 after it.
C17_MirrorSelection ==
    /\ Decided("use_mirrors") => (Called("use_mirrors") <=> RegionChosen)
    /\ Decided("set_mirrors") =>
          (Called("set_mirrors") <=> (RegionChosen /\ plan.mirrors # NoneVal))
    /\ Before("use_mirrors", "minimal_installation")
    /\ Before("minimal_installation", "set_mirrors")
    /\ Called("set_mirrors") => Called("minimal_installation")

\* C18: once the script is past step 7, generate_key_files was called iff
\* mount_ordered_layout was called in this run and disk_encryption is an
\* encrypting scheme; never for a pre-mounted layout, for absent encryption
\* or for NoEncryption; the call is after sanity_check and before
\* minimal_installation.
C18_KeyFilesIffMountedAndEncrypted ==
    /\ Decided("key_files") =>
          (Called("generate_key_files")
              <=> (Called("mount_ordered_layout") /\ plan.disk_encryption = "Luks"))
    /\ Called("generate_key_files") =>
          /\ plan.config_type # "Pre_mount"
          /\ plan.disk_encryption \notin {NoneVal, "NoEncryption"}
          /\ failed # "mount_ordered_layout"
          /\ Called("sanity_check") /\ Before("sanity_check", "generate_key_files")
          /\ Before("generate_key_files", "minimal_installation")

C18_Witness ==
    /\ Called("generate_key_files")
    /\ Called("minimal_installation")
    /\ plan.disk_encryption = "Luks"

Count(step) == Cardinality({i \in DOMAIN calls : calls[i] = step})

UnconditionalSteps ==
    { "sanity_check", "minimal_installation", "add_bootloader",
      "set_keyboard_language", "genfstab" }

\* C19: in a run that completes (no dry run, no failed step), sanity_check,
\* minimal_installation, add_bootloader, set_keyboard_language and genfstab
\* have each been called exactly once, whatever the plan, and every other
\* step of the pipeline that was called comes before genfstab.
C19_UnconditionalSteps ==
    pc = "end" =>
        /\ \A s \in UnconditionalSteps : Count(s) = 1
        /\ \A i, j \in DOMAIN calls :
              (calls[j] = "genfstab" /\ StepNo(calls[i]) \in 4..26) => i < j

C19_Witness ==
    /\ pc = "end"
    /\ plan = [MinimalPlan EXCEPT !.silent = TRUE]
    /\ Count("genfstab") = 1

InteractivePoints ==
    { "ask_user_questions", "show", "input", "chroot_prompt", "drop_to_shell" }

\* C20: in a silent run no interactive point is reached (no gathering, no
\* display of the plan, no confirmation, no chroot prompt or shell); the plan
\* is still saved and the plan-decided steps of a completed run are those
\* whose condition holds.
C20_SilentNeverInteracts ==
    plan.silent =>
        /\ \A s \in InteractivePoints : ~Called(s)
        /\ caught = NoneVal
        /\ Decided("save") => Called("save")
        /\ pc = "end" =>
              SelectSeq(calls, IsPlanDecided) = Names(SelectSeq(PlanDecided, Wanted))

C20_Witness ==
    plan.silent /\ pc = "end" /\ Called("save") /\ Called("genfstab")

\* C21 as stated: whenever set_mirrors (step 10) has been called, use_mirrors
\* (step 8) was called earlier in the same run, for the same region (both read
\* the region of the plan, which no step writes).
C21_TargetMirrorsAfterLiveMirrors ==
    Called("set_mirrors") =>
        /\ Called("use_mirrors")
        /\ Before("use_mirrors", "set_mirrors")

\* The provisioning steps (4-28) among the calls of a run
Provisioning(c) == StepNo(c) >= 4

ProvisioningSteps(cs) == SelectSeq(cs, Provisioning)

IsPrefix(a, b) == Len(a) <= Len(b) /\ SubSeq(b, 1, Len(a)) = a

\* C22 as stated: on the plan, the firmware and the outcomes of a run of the
\* guided script, the example script calls the same provisioning steps in the
\* same order (at every moment a prefix of them, at its end all of them),
\* fails at the same call or swallows the same exception, leaves the Installer
\* context in the same state and ends with the same exit code; it makes no
\* mirror check, saves and shows no plan and asks for no confirmation.
C22_ExampleEquivalent ==
    /\ IsPrefix(ProvisioningSteps(example.calls), ProvisioningSteps(calls))
    /\ \A i \in DOMAIN example.calls :
          example.calls[i] \notin {"check_mirror_reachable", "show", "save", "input"}
    /\ example.exit_code # -1 =>
          /\ ProvisioningSteps(example.calls) = ProvisioningSteps(calls)
          /\ example.failed = failed
          /\ example.caught = caught
          /\ example.scope = scope
          /\ example.exit_code = exit_code

(* ---------------------------------------------------------------------- *)
(* The installation script                                                *)
(* ---------------------------------------------------------------------- *)

Next ==
    \/ MirrorCheck
    \/ AskUserQuestions
    \/ ShowConfig
    \/ SaveConfig
    \/ DryRunGate
    \/ PressEnter
    \/ FilesystemOperations
    \/ EnterInstaller
    \/ MountOrderedLayout
    \/ SanityCheck
    \/ GenerateKeyFiles
    \/ UseMirrors
    \/ MinimalInstallation
    \/ SetMirrors
    \/ SetupSwap
    \/ GrubPackages
    \/ AddBootloader
    \/ ConfigInstaller
    \/ AddAdditionalPackages
    \/ CreateUsers
    \/ AudioServer
    \/ InstallProfileConfig
    \/ SetTimezone
    \/ ActivateTimeSyncronization
    \/ EnableEspeakup
    \/ UserSetPw
    \/ SetKeyboardLanguage
    \/ PostInstall
    \/ EnableService
    \/ RunCustomUserCommands
    \/ Genfstab
    \/ Chroot
    \/ InstallerExit
    \/ Finish

Spec == Init /\ [][Next]_vars

\* The guided script, and then the example script on the same plan, machine
\* and outcomes
ExampleNext ==
    \/ ExampleAskUserQuestions
    \/ ExampleFilesystemOperations
    \/ ExampleEnterInstaller
    \/ ExampleMountOrderedLayout
    \/ ExampleSanityCheck
    \/ ExampleGenerateKeyFiles
    \/ ExampleUseMirrors
    \/ ExampleMinimalInstallation
    \/ ExampleSetMirrors
    \/ ExampleSetupSwap
    \/ ExampleGrubPackages
    \/ ExampleAddBootloader
    \/ ExampleConfigInstaller
    \/ ExampleAddAdditionalPackages
    \/ ExampleCreateUsers
    \/ ExampleAudioServer
    \/ ExampleInstallProfileConfig
    \/ ExampleSetTimezone
    \/ ExampleActivateTimeSyncronization
    \/ ExampleEnableEspeakup
    \/ ExampleUserSetPw
    \/ ExampleSetKeyboardLanguage
    \/ ExamplePostInstall
    \/ ExampleEnableService
    \/ ExampleRunCustomUserCommands
    \/ ExampleGenfstab
    \/ ExampleChroot
    \/ ExampleInstallerExit
    \/ ExampleFinish

BothNext == Next \/ ExampleNext

BothSpec == Init /\ [][BothNext]_vars

====
